---- MODULE Spec2Model ----
(***************************************************************************)
(* Model of proxybroker/providers.py: the Provider fetch / retry /         *)
(* concurrency pipeline (Provider.get_proxies, _pipe, _find_on_pages,      *)
(* _find_on_page, get, _get, the proxies setter) driven by the discovery   *)
(* strategies of Proxy_list_org, Proxylist_me, Gatherproxy_com, Spys_ru   *)
(* and Openproxy_space.                                                    *)
(*                                                                         *)
(* A page text is named by an identifier; "" is the empty text.  What the  *)
(* regular expressions of the code find on a page is given by the tables   *)
(* PageItems (extraction) and PageTokens (discovery).                      *)
(*                                                                         *)
(* Coroutines run atomically between two awaits that suspend.  The model   *)
(* has one step for taking a permit and sending the request, and one step  *)
(* for the arrival of the response, which runs the coroutine up to its     *)
(* next suspension.                                                        *)
(***************************************************************************)
EXTENDS Integers, Sequences, FiniteSets, TLC

\* ---- bounds of the model ----
MaxConn == 2
MaxTries == 2
MaxPage == 2
MaxCalls == 2
BatchLen == 2

\* number of page-task slots: the longest list handed to _find_on_pages is
\* that of Proxy_list_org, one URL per link of the index page (MaxPage links
\* and one repeated) and the index URL itself
MaxTasks == MaxPage + 2
TaskIds == 0..MaxTasks
PageTasks == 1..MaxTasks

VARIABLES kind, proto, max_conn, _max_tries, _sem_provider, _session,
          run, tasks, _proxies, ev, pipe, earlier,
          Spys_ru_charEqNum, provider, call

vars == <<kind, proto, max_conn, _max_tries, _sem_provider, _session,
          run, tasks, _proxies, ev, pipe, earlier,
          Spys_ru_charEqNum, provider, call>>

\* the state of the cipher variants: the class attribute Spys_ru.charEqNum,
\* the instances of a cipher variant, and the last call of find_proxies
cipher == <<Spys_ru_charEqNum, provider, call>>

\* the state of the fetch pipeline of one instance
pipeline == <<kind, proto, max_conn, _max_tries, _sem_provider, _session,
              run, tasks, _proxies, ev, pipe, earlier>>

\* ---- provider variants and their configuration ----
Kinds == {"Provider", "Proxy_list_org", "Proxylist_me", "Spys_ru",
          "Openproxy_space"}

HTTP == <<"HTTP", "CONNECT:80", "HTTPS", "CONNECT:25">>

\* the proto each variant is constructed with in PROVIDERS (lines 622-713)
ProtosOf(k) ==
    IF k \in {"Provider", "Openproxy_space"}
    THEN {HTTP, <<"SOCKS4">>, <<"SOCKS5">>}
    ELSE {HTTP}

Range(s) == {s[i] : i \in 1..Len(s)}

Last(s) == s[Len(s)]

\* ---- page texts ----
Pages == {"A", "B", "X", "M"}

\* the pages a variant can be served: "M" is a page of base64 tokens one of
\* which decodes to a text without ':'
PagesOf(k) == IF k = "Proxy_list_org" THEN Pages ELSE Pages \ {"M"}

\* int(port, 16) on the port texts of the pages
int16(port) ==
    CASE port = "80" -> "128"
      [] port = "81" -> "129"

\* what the extraction pattern (and decoding) yields on a page
PageItems(page) ==
    CASE page = "A" -> << <<"10.0.0.1", "80">>, <<"10.0.0.2", "80">> >>
      [] page = "B" -> << <<"10.0.0.1", "80">>, <<"10.0.0.1", "">>,
                          <<"10.0.0.2", "81">> >>
      [] page = "M" -> << <<"10.0.0.1", "81">>, <<"10.0.0.2">> >>
      [] OTHER -> << >>

\* the variants whose find_proxies decodes (and may raise on) page content
Decoders == {"Proxy_list_org", "Spys_ru"}

DecodeFails(k, page) == k \in Decoders /\ page = "X"

\* the numeric tokens the discovery pattern finds on an index page
PageTokens(page) ==
    CASE page = "A" -> [i \in 1..MaxPage |-> i] \o <<1>>
      [] page = "B" -> <<0>>
      [] OTHER -> << >>

\* ---- requests ----
Req(isdict, url, data, method) ==
    [dict |-> isdict, url |-> url, data |-> data, method |-> method]

Url(u) == Req(FALSE, u, << >>, "GET")

NoReq == Req(FALSE, <<"", 0>>, << >>, "")

\* ---- network events ----
TransportErrors == {"UnicodeDecodeError", "TimeoutError", "ClientOSError",
                    "ClientResponseError", "ServerDisconnectedError",
                    "ClientPayloadError"}

Event(exc, status, body) == [exc |-> exc, status |-> status, body |-> body]

Events(k) ==
    {Event(x, 0, "") : x \in TransportErrors}
    \cup {Event("", 404, "A")}
    \cup {Event("", 200, b) : b \in PagesOf(k) \cup {""}}

NoEvent == [task |-> -1, exc |-> "", status |-> 0, body |-> ""]

\* ---- tasks ----
Task(pc, req, log, page, extracted, exc) ==
    [pc |-> pc, req |-> req, log |-> log, page |-> page,
     extracted |-> extracted, exc |-> exc]

IdleTask == Task("idle", NoReq, << >>, "", FALSE, "")

NewTask(req) == Task("acquire", req, << >>, "", FALSE, "")


\* ---- Provider._get (lines 136-160) ----
\* C1 mutant: a gate that never reports itself locked
locked_mut(sem) == FALSE

\* asyncio.Semaphore.locked(): no permit is available
locked(sem) == sem = 0

\* C8 mutant: an except clause that forgets asyncio.TimeoutError
Caught_mut == {"UnicodeDecodeError", "BadStatusError", "ClientOSError",
               "ClientResponseError", "ServerDisconnectedError"}

\* the exception classes of the except clause of _get
Caught == {"UnicodeDecodeError", "BadStatusError", "TimeoutError",
           "ClientOSError", "ClientResponseError", "ServerDisconnectedError"}

\* the exception raised inside the 'async with' body for a network event:
\* the transport's own, or BadStatusError for a status other than 200
Raised(e) ==
    IF e.exc # "" THEN e.exc
    ELSE IF e.status # 200 THEN "BadStatusError"
    ELSE ""

\* what _get hands to its caller: the page text, or an exception it let through
_get(e) ==
    IF Raised(e) = "" THEN [page |-> e.body, exc |-> ""]
    ELSE IF Raised(e) \in Caught THEN [page |-> "", exc |-> ""]
    ELSE [page |-> "", exc |-> Raised(e)]

\* C11 mutant: a permit given back after the body instead of by the context
\* manager, so that an exception in the body skips the release
release_mut(sem, x) == IF x = "" THEN sem + 1 ELSE sem

\* leaving 'async with self._sem_provider' (line 140) gives the permit back,
\* whether the body ended normally (x = "") or raised x
release(sem, x) == sem + 1

\* ---- Provider.get (lines 129-134) ----
\* C2 mutant: a loop without the break
get_break_mut(page) == FALSE

\* 'if page: break'
get_break(page) == page # ""

\* one pass of the loop body after _get has answered r, with log the texts the
\* earlier calls returned
get(log, r, tries) ==
    IF r.exc # "" THEN [next |-> "raise", log |-> log, page |-> "", exc |-> r.exc]
    ELSE IF get_break(r.page)
         THEN [next |-> "return", log |-> Append(log, r.page), page |-> r.page, exc |-> ""]
    ELSE IF Len(log) + 1 < tries
         THEN [next |-> "retry", log |-> Append(log, r.page), page |-> "", exc |-> ""]
    ELSE [next |-> "return", log |-> Append(log, r.page), page |-> r.page, exc |-> ""]

\* ---- extraction and merge ----
\* find_proxies of the variant: the items found, or raises
find_proxies(k, page) ==
    IF DecodeFails(k, page) THEN [exc |-> "Exception", items |-> << >>]
    ELSE IF k = "Gatherproxy_com"
    THEN [exc |-> "",
          items |-> LET found == SelectSeq(PageItems(page), LAMBDA x : x[2] # "")
                    IN  [i \in 1..Len(found) |->
                            <<found[i][1], int16(found[i][2])>>]]
    ELSE [exc |-> "", items |-> PageItems(page)]

\* C3 mutant: a setter that tags a record with a protocol guessed from the
\* page (its number of items), so one pair gets a record per guess
proxies_setter_mut_page(old, new, pr) ==
    IF \E i \in 1..Len(new) : Len(new[i]) # 2
    THEN [exc |-> "ValueError", proxies |-> old]
    ELSE [exc |-> "",
          proxies |-> old \cup {<<new[i][1], new[i][2],
                                   IF Len(new) > 2 THEN <<"SOCKS5">> ELSE pr>> :
                                   i \in {j \in 1..Len(new) : new[j][2] # ""}}]

\* C4 mutant: a setter that tags a record with a protocol guessed from its port
proxies_setter_mut_port(old, new, pr) ==
    IF \E i \in 1..Len(new) : Len(new[i]) # 2
    THEN [exc |-> "ValueError", proxies |-> old]
    ELSE [exc |-> "",
          proxies |-> old \cup {<<new[i][1], new[i][2],
                                   IF new[i][2] = "81" THEN <<"SOCKS5">> ELSE pr>> :
                                   i \in {j \in 1..Len(new) : new[j][2] # ""}}]

\* C23 mutant: a setter without the 'if port'
proxies_setter_mut_keep(old, new, pr) ==
    IF \E i \in 1..Len(new) : Len(new[i]) # 2
    THEN [exc |-> "ValueError", proxies |-> old]
    ELSE [exc |-> "",
          proxies |-> old \cup {<<new[i][1], new[i][2], pr>> : i \in 1..Len(new)}]

\* the proxies setter (lines 68-71): unpacking an item that is no pair raises
\* ValueError before the set is touched; pairs with an empty port are dropped
proxies_setter(old, new, pr) ==
    IF \E i \in 1..Len(new) : Len(new[i]) # 2
    THEN [exc |-> "ValueError", proxies |-> old]
    ELSE [exc |-> "",
          proxies |-> old \cup {<<new[i][1], new[i][2], pr>> :
                                   i \in {j \in 1..Len(new) : new[j][2] # ""}}]

\* C9 mutant: _find_on_page without the try/except around find_proxies
_find_on_page_mut_notry(k, page, old, pr) ==
    IF page = ""
    THEN [pc |-> "done", exc |-> "", extracted |-> FALSE, proxies |-> old]
    ELSE LET f == find_proxies(k, page)
             m == proxies_setter(old, f.items, pr)
         IN  IF f.exc # ""
             THEN [pc |-> "raised", exc |-> f.exc, extracted |-> TRUE, proxies |-> old]
             ELSE IF f.items = << >>
             THEN [pc |-> "done", exc |-> "", extracted |-> TRUE, proxies |-> old]
             ELSE IF m.exc # ""
             THEN [pc |-> "raised", exc |-> m.exc, extracted |-> TRUE, proxies |-> old]
             ELSE [pc |-> "done", exc |-> "", extracted |-> TRUE, proxies |-> m.proxies]

\* C10 mutant: _find_on_page without the 'if not page: return'
_find_on_page_mut_noreturn(k, page, old, pr) ==
    LET f == find_proxies(k, page)
        received == IF f.exc # "" THEN << >> ELSE f.items
        m == proxies_setter(old, received, pr)
    IN  IF received = << >>
        THEN [pc |-> "done", exc |-> "", extracted |-> TRUE, proxies |-> old]
        ELSE IF m.exc # ""
        THEN [pc |-> "raised", exc |-> m.exc, extracted |-> TRUE, proxies |-> old]
        ELSE [pc |-> "done", exc |-> "", extracted |-> TRUE, proxies |-> m.proxies]

\* _find_on_page after get has returned page (lines 109-127)
_find_on_page(k, page, old, pr) ==
    IF page = ""
    THEN [pc |-> "done", exc |-> "", extracted |-> FALSE, proxies |-> old]
    ELSE LET f == find_proxies(k, page)
             received == IF f.exc # "" THEN << >> ELSE f.items
             m == proxies_setter(old, received, pr)
         IN  IF received = << >>
             THEN [pc |-> "done", exc |-> "", extracted |-> TRUE, proxies |-> old]
             ELSE IF m.exc # ""
             THEN [pc |-> "raised", exc |-> m.exc, extracted |-> TRUE, proxies |-> old]
             ELSE [pc |-> "done", exc |-> "", extracted |-> TRUE, proxies |-> m.proxies]

\* ---- discovery ----
RECURSIVE SetToSeq(_)
SetToSeq(S) ==
    IF S = {} THEN << >>
    ELSE LET x == CHOOSE y \in S : TRUE IN <<x>> \o SetToSeq(S \ {x})

RECURSIVE Max(_)
Max(s) == IF Len(s) = 1 THEN s[1]
          ELSE LET m == Max(Tail(s)) IN IF s[1] > m THEN s[1] ELSE m

\* C22 mutant: _find_on_pages without 'urls = set(urls)'
_find_on_pages_mut(urls) == urls

\* _find_on_pages (lines 94-105): the requests that get a task
_find_on_pages(urls) ==
    IF urls = << >> THEN << >>
    ELSE IF ~urls[1].dict THEN SetToSeq(Range(urls))
    ELSE urls

Discovered(next, exc, urls) == [next |-> next, exc |-> exc, urls |-> urls]

\* Gatherproxy_com._pipe: the tiers of the loop (line 314) and the request of
\* page pid of tier t (lines 315-316, 320-327)
Tiers == <<"anonymous", "elite">>

TierReq(t, pid) ==
    Req(TRUE, <<"http://www.gatherproxy.com/proxylist/anonymity/", 0>>,
        <<t, pid>>, "POST")

IndexUrl(k) ==
    CASE k = "Proxy_list_org" -> Url(<<"http://proxy-list.org/english/index.php?p=", 1>>)
      [] k = "Proxylist_me" -> Url(<<"https://proxylist.me/", 0>>)
      [] k = "Spys_ru" -> Url(<<"http://spys.one/proxies/", 0>>)
      [] k = "Openproxy_space" -> Url(<<"https://api.openproxy.space/list?skip=0&ts=", 0>>)
      [] k = "Gatherproxy_com" -> TierReq(Tiers[1], 1)
      [] OTHER -> NoReq

\* Proxy_list_org._pipe after the index page (lines 223-230)
Proxy_list_org_pipe(page) ==
    LET t == PageTokens(page)
        urls == [i \in 1..Len(t) |->
                    Url(<<"http://proxy-list.org/english/index.php?p=", t[i]>>)]
    IN  Discovered("gather", "", urls \o <<IndexUrl("Proxy_list_org")>>)

\* Proxylist_me._pipe after the index page (lines 266-273)
Proxylist_me_pipe(page) ==
    LET t == PageTokens(page) IN
    IF t = << >> THEN Discovered("raise", "ValueError", << >>)
    ELSE LET lastId == Max(t) IN
         Discovered("gather", "",
             [i \in 1..lastId |-> Url(<<"https://proxylist.me/?page=", i - 1>>)])

\* Spys_ru._pipe after the index page (lines 450-463)
Spys_ru_pipe(page) ==
    LET t == PageTokens(page) IN
    IF t = << >> THEN Discovered("raise", "IndexError", << >>)
    ELSE LET sessionId == t[1]
             lvls == <<3, 4>>
         IN  Discovered("gather", "",
                 [i \in 1..2 |-> Req(TRUE, <<"http://spys.one/proxies/", 0>>,
                                     <<sessionId, 3, lvls[i]>>, "POST")])

\* Openproxy_space._pipe after the list page (lines 558-577)
Openproxy_space_pipe(page, pr) ==
    IF page = "X" THEN Discovered("raise", "JSONDecodeError", << >>)
    ELSE LET codes == PageTokens(page)
             index == IF "SOCKS5" \in Range(pr) THEN 0
                      ELSE IF "SOCKS4" \in Range(pr) THEN 1
                      ELSE 2
         IN  IF index + 1 > Len(codes) THEN Discovered("raise", "IndexError", << >>)
             ELSE Discovered("page", "",
                     <<Url(<<"https://openproxy.space/list/", codes[index + 1]>>)>>)

\* Gatherproxy_com._pipe, one pass of the loop body after get has returned
\* page for tier t, with urls the list built so far (lines 317-328)
Gatherproxy_com_pipe(page, t, urls) ==
    IF page = "" THEN Discovered("continue", "", urls)
    ELSE LET n == PageTokens(page) IN
         IF n = << >> THEN Discovered("raise", "ValueError", << >>)
         ELSE LET lastPageId == Max(n) IN
              Discovered("continue", "",
                  [pid \in 1..lastPageId |-> TierReq(t, pid)])

\* _pipe of the variant once the index page is there
_pipe(k, page, pr) ==
    IF page = "" THEN Discovered("return", "", << >>)
    ELSE CASE k = "Proxy_list_org" -> Proxy_list_org_pipe(page)
           [] k = "Proxylist_me" -> Proxylist_me_pipe(page)
           [] k = "Spys_ru" -> Spys_ru_pipe(page)
           [] k = "Openproxy_space" -> Openproxy_space_pipe(page, pr)


\* ---- the cipher variants: Xseo_in, Nntime_com, Spys_ru ----
\* A page of a cipher variant is given by what the patterns of find_proxies
\* read on it: defs, the assignments expCharNum finds, in page order, and
\* ports, each host with the port expression expPortOnJS finds behind it.
CPage(defs, ports) == [defs |-> defs, ports |-> ports]

Digits == <<"0", "1", "2", "3", "4", "5", "6", "7", "8", "9">>

IsNumeral(s) == \E i \in 1..Len(Digits) : Digits[i] = s

\* int(s) of a one-digit numeral
int(s) == (CHOOSE i \in 1..Len(Digits) : Digits[i] = s) - 1

\* str(n) of a natural number
RECURSIVE str(_)
str(n) ==
    IF n < 10 THEN Digits[n + 1]
    ELSE str(n \div 10) \o Digits[(n % 10) + 1]

\* Python's a ^ b on natural numbers
RECURSIVE Xor(_, _)
Xor(a, b) ==
    IF a = 0 /\ b = 0 THEN 0
    ELSE (((a % 2) + (b % 2)) % 2) + 2 * Xor(a \div 2, b \div 2)

\* ''.join(parts)
RECURSIVE join(_)
join(parts) == IF parts = << >> THEN "" ELSE Head(parts) \o join(Tail(parts))

\* a dict: the empty one, and d after d[key] = value
EmptyDict == [key \in {} |-> 0]

Store(d, key, value) ==
    [k \in DOMAIN d \cup {key} |-> IF k = key THEN value ELSE d[k]]

\* {char: i for char, i in pairs}
RECURSIVE Dict(_)
Dict(pairs) ==
    IF pairs = << >> THEN EmptyDict
    ELSE LET p == pairs[Len(pairs)] IN
         Store(Dict(SubSeq(pairs, 1, Len(pairs) - 1)), p[1], p[2])

\* C16 mutant: a join that looks up every character, '+' included
Xseo_in_char_js_port_to_num_mut(charEqNum, chars) ==
    IF \E i \in 1..Len(chars) : chars[i] \notin DOMAIN charEqNum
    THEN [exc |-> "KeyError", num |-> ""]
    ELSE [exc |-> "", num |-> join([i \in 1..Len(chars) |-> charEqNum[chars[i]]])]

\* Xseo_in.char_js_port_to_num, Nntime_com.char_js_port_to_num (lines 350-353,
\* 379-382): chars is the text of the group as a sequence of characters
Xseo_in_char_js_port_to_num(charEqNum, chars) ==
    LET letters == SelectSeq(chars, LAMBDA ch : ch # "+") IN
    IF \E i \in 1..Len(letters) : letters[i] \notin DOMAIN charEqNum
    THEN [exc |-> "KeyError", num |-> ""]
    ELSE [exc |-> "",
          num |-> join([i \in 1..Len(letters) |-> charEqNum[letters[i]]])]

\* the re.sub of the port expressions and _find_proxies on the result: the
\* pairs (host, port), or the error of the first expression that raised
Substituted(ports, nums) ==
    IF \E i \in 1..Len(nums) : nums[i].exc # ""
    THEN [exc |-> nums[CHOOSE i \in 1..Len(nums) :
                         /\ nums[i].exc # ""
                         /\ \A j \in 1..(i - 1) : nums[j].exc = ""].exc,
          items |-> << >>]
    ELSE [exc |-> "",
          items |-> [i \in 1..Len(ports) |-> <<ports[i][1], nums[i].num>>]]

\* Xseo_in.find_proxies (lines 355-360): the table is built anew from the
\* page and bound to the instance
Xseo_in_find_proxies(page) ==
    LET charEqNum == Dict(page.defs)
        r == Substituted(page.ports,
                 [i \in 1..Len(page.ports) |->
                     Xseo_in_char_js_port_to_num(charEqNum, page.ports[i][2])])
    IN  [exc |-> r.exc, items |-> r.items, charEqNum |-> charEqNum]

\* Nntime_com.find_proxies (lines 384-389)
Nntime_com_find_proxies(page) == Xseo_in_find_proxies(page)

\* C17 mutant: a loop that puts each new digit in front of num
Spys_ru_char_js_port_to_num_mut(charEqNum, chars) ==
    IF \E i \in 1..Len(chars) : \E v \in Range(chars[i]) : v \notin DOMAIN charEqNum
    THEN [exc |-> "KeyError", num |-> ""]
    ELSE [exc |-> "",
          num |-> join([i \in 1..Len(chars) |->
                     LET g == chars[Len(chars) + 1 - i]
                     IN  str(Xor(charEqNum[g[1]], charEqNum[g[2]]))])]

\* Spys_ru.char_js_port_to_num (lines 418-429): chars is the chain as the
\* sequence of its groups, each the pair var1, var2 of '(var1^var2)'
Spys_ru_char_js_port_to_num(charEqNum, chars) ==
    IF \E i \in 1..Len(chars) : \E v \in Range(chars[i]) : v \notin DOMAIN charEqNum
    THEN [exc |-> "KeyError", num |-> ""]
    ELSE [exc |-> "",
          num |-> join([i \in 1..Len(chars) |->
                     str(Xor(charEqNum[chars[i][1]], charEqNum[chars[i][2]]))])]

\* the loop over the assignments (lines 437-442): each is stored in the
\* table it is given, which keeps what was stored before an error; num is
\* the right-hand side split at '^'
RECURSIVE Spys_ru_assign(_, _)
Spys_ru_assign(charEqNum, res) ==
    IF res = << >> THEN [exc |-> "", charEqNum |-> charEqNum]
    ELSE LET char == res[1][1]
             num == res[1][2]
         IN  IF Len(num) > 2 \/ ~IsNumeral(num[1])
             THEN [exc |-> "ValueError", charEqNum |-> charEqNum]
             ELSE IF Len(num) = 2 /\ num[2] \notin DOMAIN charEqNum
             THEN [exc |-> "KeyError", charEqNum |-> charEqNum]
             ELSE LET value == IF Len(num) = 2
                               THEN Xor(int(num[1]), charEqNum[num[2]])
                               ELSE int(num[1])
                  IN  Spys_ru_assign(Store(charEqNum, char, value), Tail(res))

\* Spys_ru.find_proxies (lines 431-444) on the table self.charEqNum resolves
\* to: the pairs or the error, and the table as the call leaves it
Spys_ru_find_proxies(charEqNum, page) ==
    LET a == Spys_ru_assign(charEqNum, page.defs)
        r == Substituted(page.ports,
                 [i \in 1..Len(page.ports) |->
                     Spys_ru_char_js_port_to_num(a.charEqNum, page.ports[i][2])])
    IN  IF a.exc # ""
        THEN [exc |-> a.exc, items |-> << >>, charEqNum |-> a.charEqNum]
        ELSE [exc |-> r.exc, items |-> r.items, charEqNum |-> a.charEqNum]

\* ---- the state machine ----
\* the local variables of Gatherproxy_com._pipe that live across its awaits:
\* t the pass of the loop (0: not in the loop), urls, and pages, the text get
\* returned in each pass so far
NoLoop == [t |-> 0, urls |-> << >>, pages |-> << >>]

\* no find_proxies has been called
NoFind == [i |-> 0, page |-> CPage(<< >>, << >>), exc |-> "", items |-> << >>]

\* a run of the pipeline of a variant without cipher
NoCipher ==
    /\ Spys_ru_charEqNum = EmptyDict
    /\ provider = << >>
    /\ call = NoFind

\* the calls of get_proxies that have returned before the present one, and
\* the content the set had when the last of them returned it
NoCall == [calls |-> 0, returned |-> {}]

Init ==
    /\ kind \in Kinds
    /\ proto \in ProtosOf(kind)
    /\ max_conn \in 1..MaxConn
    /\ _max_tries \in 1..MaxTries
    /\ _sem_provider = max_conn
    /\ _session = "none"
    /\ run = "new"
    /\ tasks = [t \in TaskIds |-> IdleTask]
    /\ _proxies = {}
    /\ ev = NoEvent
    /\ pipe = NoLoop
    /\ earlier = NoCall
    /\ NoCipher

Ended == {"returned", "raised"}

\* the tasks of the batch: slot i runs the i-th request
Launch(reqs) ==
    [t \in TaskIds |->
        IF t \in 1..Len(reqs) THEN NewTask(reqs[t]) ELSE tasks[t]]

\* get_proxies up to its first suspension (lines 73-83, 91-92): the session is
\* opened and _pipe starts its first get
get_proxies ==
    /\ run = "new"
    /\ _session' = "open"
    /\ IF kind = "Provider"
       THEN /\ run' = "page"
            /\ tasks' = [tasks EXCEPT ![1] = NewTask(Url(<<"url", 0>>))]
       ELSE /\ run' = "index"
            /\ tasks' = [tasks EXCEPT ![0] = NewTask(IndexUrl(kind))]
    /\ ev' = NoEvent
    /\ pipe' = (IF kind = "Gatherproxy_com" THEN [NoLoop EXCEPT !.t = 1] ELSE pipe)
    /\ UNCHANGED <<kind, proto, max_conn, _max_tries, _sem_provider, _proxies,
                   earlier, cipher>>

\* _get enters 'async with self._sem_provider, self._session.request(...)'
\* (lines 140-142): a permit is taken and the request is sent
Acquire(t) ==
    /\ tasks[t].pc = "acquire"
    /\ _session = "open"
    /\ ~locked(_sem_provider)
    /\ _sem_provider' = _sem_provider - 1
    /\ tasks' = [tasks EXCEPT ![t].pc = "request"]
    /\ ev' = NoEvent
    /\ UNCHANGED <<kind, proto, max_conn, _max_tries, _session, run, _proxies,
                   pipe, earlier, cipher>>

\* the same statement once the session is closed: the permit is taken,
\* request() raises RuntimeError, the permit is given back and the exception,
\* which the except clause does not name, leaves _get, get and _find_on_page
ClosedRequest(t) ==
    /\ tasks[t].pc = "acquire"
    /\ _session = "closed"
    /\ ~locked(_sem_provider)
    /\ tasks' = [tasks EXCEPT ![t].pc = "raised", ![t].exc = "RuntimeError"]
    /\ ev' = NoEvent
    /\ UNCHANGED <<kind, proto, max_conn, _max_tries, _sem_provider, _session,
                   run, _proxies, pipe, earlier, cipher>>

\* the coroutine that awaits task t directly: _pipe awaits its own get
\* (slot 0), and the single page of Provider._pipe and Openproxy_space._pipe
Inline(t) == t = 0 \/ run = "page"

\* _pipe goes on with the index page that get returned (slot 0): it returns,
\* raises, or launches the page tasks
Discover(g) ==
    LET d == _pipe(kind, g.page, proto)
        reqs == _find_on_pages(d.urls)
        finished(pc, exc) == Task(pc, tasks[0].req, g.log, g.page, FALSE, exc)
    IN
    /\ UNCHANGED <<_proxies, pipe>>
    /\ IF d.next = "raise"
       THEN /\ tasks' = [tasks EXCEPT ![0] = finished("raised", d.exc)]
            /\ run' = "raised"
            /\ _session' = "closed"
       ELSE IF d.next = "return" \/ (d.next = "gather" /\ reqs = << >>)
       THEN /\ tasks' = [tasks EXCEPT ![0] = finished("done", "")]
            /\ run' = "returned"
            /\ _session' = "closed"
       ELSE IF d.next = "gather"
       THEN /\ tasks' = [Launch(reqs) EXCEPT ![0] = finished("done", "")]
            /\ run' = "gather"
            /\ UNCHANGED _session
       ELSE /\ tasks' = [Launch(d.urls) EXCEPT ![0] = finished("done", "")]
            /\ run' = "page"
            /\ UNCHANGED _session

\* Gatherproxy_com._pipe goes on with the page that get returned for the tier
\* of this pass (slot 0): it raises, starts the get of the next tier, or
\* leaves the loop and hands urls to _find_on_pages (lines 314-330)
Gather(g) ==
    LET d == Gatherproxy_com_pipe(g.page, Tiers[pipe.t], pipe.urls)
        reqs == _find_on_pages(d.urls)
        finished(pc, exc) == Task(pc, tasks[0].req, g.log, g.page, FALSE, exc)
    IN
    /\ UNCHANGED _proxies
    /\ IF d.next = "raise"
       THEN /\ tasks' = [tasks EXCEPT ![0] = finished("raised", d.exc)]
            /\ pipe' = [pipe EXCEPT !.pages = Append(@, g.page)]
            /\ run' = "raised"
            /\ _session' = "closed"
       ELSE IF pipe.t < Len(Tiers)
       THEN /\ tasks' = [tasks EXCEPT ![0] = NewTask(TierReq(Tiers[pipe.t + 1], 1))]
            /\ pipe' = [t |-> pipe.t + 1, urls |-> d.urls,
                        pages |-> Append(pipe.pages, g.page)]
            /\ UNCHANGED <<run, _session>>
       ELSE IF reqs = << >>
       THEN /\ tasks' = [tasks EXCEPT ![0] = finished("done", "")]
            /\ pipe' = [pipe EXCEPT !.urls = d.urls, !.pages = Append(@, g.page)]
            /\ run' = "returned"
            /\ _session' = "closed"
       ELSE /\ tasks' = [Launch(reqs) EXCEPT ![0] = finished("done", "")]
            /\ pipe' = [pipe EXCEPT !.urls = d.urls, !.pages = Append(@, g.page)]
            /\ run' = "gather"
            /\ UNCHANGED _session

\* _find_on_page goes on with the page that get returned (lines 109-127)
Extract(t, g) ==
    LET f == _find_on_page(kind, g.page, _proxies, proto) IN
    /\ tasks' = [tasks EXCEPT ![t] =
          Task(f.pc, @.req, g.log, g.page, f.extracted, f.exc)]
    /\ _proxies' = f.proxies
    /\ UNCHANGED pipe
    /\ IF Inline(t)
       THEN /\ run' = (IF f.pc = "raised" THEN "raised" ELSE "returned")
            /\ _session' = "closed"
       ELSE UNCHANGED <<run, _session>>

\* the response (or failure) e of the request of task t arrives: _get leaves
\* the 'async with' (permit released, lines 143-160), get decides on a retry
\* (lines 130-134) and, the text returned, the caller goes on: _pipe with
\* discovery (slot 0), _find_on_page with extraction and merge
Respond(t, e) ==
    /\ tasks[t].pc = "request"
    /\ _sem_provider' = release(_sem_provider, Raised(e))
    /\ ev' = [task |-> t, exc |-> e.exc, status |-> e.status, body |-> e.body]
    /\ LET g == get(tasks[t].log, _get(e), _max_tries) IN
       IF g.next = "retry"
       THEN /\ tasks' = [tasks EXCEPT ![t].pc = "acquire", ![t].log = g.log]
            /\ UNCHANGED <<run, _session, _proxies, pipe>>
       ELSE IF g.next = "raise"
       THEN /\ tasks' = [tasks EXCEPT ![t].pc = "raised", ![t].exc = g.exc]
            /\ IF Inline(t)
               THEN run' = "raised" /\ _session' = "closed"
               ELSE UNCHANGED <<run, _session>>
            /\ UNCHANGED <<_proxies, pipe>>
       ELSE IF t = 0 /\ kind = "Gatherproxy_com" THEN Gather(g)
       ELSE IF t = 0 THEN Discover(g)
       ELSE Extract(t, g)
    /\ UNCHANGED <<kind, proto, max_conn, _max_tries, earlier, cipher>>

\* asyncio.gather(*tasks) (line 105) hands back the results once every task
\* has returned: _find_on_pages, _pipe and get_proxies return, the session
\* is closed (lines 80-89)
gather_return ==
    /\ run = "gather"
    /\ \A t \in PageTasks : tasks[t].pc \in {"idle", "done"}
    /\ run' = "returned"
    /\ _session' = "closed"
    /\ ev' = NoEvent
    /\ UNCHANGED <<kind, proto, max_conn, _max_tries, _sem_provider, tasks,
                   _proxies, pipe, earlier, cipher>>

\* asyncio.gather(*tasks) (line 105) passes on the first exception a task
\* raised, without waiting for or cancelling the other tasks: the exception
\* leaves get_proxies through the 'async with', which closes the session
gather_raise ==
    /\ run = "gather"
    /\ \E t \in PageTasks : tasks[t].pc = "raised"
    /\ run' = "raised"
    /\ _session' = "closed"
    /\ ev' = NoEvent
    /\ UNCHANGED <<kind, proto, max_conn, _max_tries, _sem_provider, tasks,
                   _proxies, pipe, earlier, cipher>>

\* some request in flight is answered
Response == \E t \in TaskIds : \E e \in Events(kind) : Respond(t, e)

Next ==
    \/ get_proxies
    \/ \E t \in TaskIds : Acquire(t)
    \/ \E t \in TaskIds : ClosedRequest(t)
    \/ Response
    \/ gather_return
    \/ gather_raise

Spec == Init /\ [][Next]_vars

\* the event loop runs every coroutine that can go on, and every request that
\* was sent is answered
Fairness ==
    /\ WF_vars(get_proxies)
    /\ WF_vars(gather_return)
    /\ WF_vars(gather_raise)
    /\ \A t \in TaskIds :
          /\ WF_vars(Acquire(t))
          /\ WF_vars(ClosedRequest(t))
          /\ WF_vars(\E e \in Events(kind) : Respond(t, e))

FairSpec == Spec /\ Fairness

\* ---- get_proxies called again on the same instance ----
\* the variants run twice
Recalled == {"Provider", "Proxylist_me"}

\* get_proxies (lines 73-83) called once more after a call that returned:
\* nothing creates a new set, self._proxies is still the set object built in
\* __init__ (line 48) that the earlier call returned (lines 66, 89)
get_proxies_again ==
    /\ run = "returned"
    /\ earlier.calls + 1 < MaxCalls
    /\ earlier' = [calls |-> earlier.calls + 1, returned |-> _proxies]
    /\ _session' = "open"
    /\ IF kind = "Provider"
       THEN /\ run' = "page"
            /\ tasks' = [t \in TaskIds |->
                            IF t = 1 THEN NewTask(Url(<<"url", 0>>)) ELSE IdleTask]
       ELSE /\ run' = "index"
            /\ tasks' = [t \in TaskIds |->
                            IF t = 0 THEN NewTask(IndexUrl(kind)) ELSE IdleTask]
    /\ ev' = NoEvent
    /\ pipe' = (IF kind = "Gatherproxy_com" THEN [NoLoop EXCEPT !.t = 1] ELSE pipe)
    /\ UNCHANGED <<kind, proto, max_conn, _max_tries, _sem_provider, _proxies,
                   cipher>>

InitRecalled ==
    /\ kind \in Recalled
    /\ proto \in ProtosOf(kind)
    /\ max_conn \in 1..MaxConn
    /\ _max_tries \in 1..MaxTries
    /\ _sem_provider = max_conn
    /\ _session = "none"
    /\ run = "new"
    /\ tasks = [t \in TaskIds |-> IdleTask]
    /\ _proxies = {}
    /\ ev = NoEvent
    /\ pipe = NoLoop
    /\ earlier = NoCall
    /\ NoCipher

NextRecalled ==
    \/ Next
    \/ get_proxies_again

SpecRecalled == InitRecalled /\ [][NextRecalled]_vars

\* ---- the cipher variants at work ----
CipherKinds == {"Xseo_in", "Nntime_com", "Spys_ru"}

Letters1 == CPage(<< <<"a", "7">>, <<"b", "2">>, <<"c", "9">> >>,
                  << <<"10.0.0.1", <<"a", "+", "b", "+", "c">> >> >>)

Letters2 == CPage(<< <<"a", "8">>, <<"d", "0">> >>,
                  << <<"10.0.0.2", <<"a", "+", "d">> >>,
                     <<"10.0.0.1", <<"d", "+", "a", "+", "a">> >> >>)

Letters3 == CPage(<< <<"a", "1">> >>,
                  << <<"10.0.0.1", <<"b", "+", "a">> >> >>)

Xor1 == CPage(<< <<"abcd", <<"5">> >>, <<"efgh", <<"3">> >> >>,
              << <<"10.0.0.1", << <<"abcd", "efgh">> >> >> >>)

Xor2 == CPage(<< <<"abcd", <<"8">> >>, <<"ijkl", <<"2", "abcd">> >> >>,
              << <<"10.0.0.2", << <<"abcd", "efgh">> >> >> >>)

Xor3 == CPage(<< <<"abcd", <<"5">> >>, <<"efgh", <<"3">> >>, <<"mnop", <<"9">> >>,
                 <<"ijkl", <<"2", "abcd">> >> >>,
              << <<"10.0.0.1", << <<"mnop", "efgh">>, <<"ijkl", "efgh">> >> >>,
                 <<"10.0.0.2", << <<"abcd", "efgh">> >> >> >>)

\* the pages a cipher variant can be served
CipherPages(k) ==
    IF k = "Spys_ru" THEN {Xor1, Xor2, Xor3} ELSE {Letters1, Letters2, Letters3}

\* two instances of the variant
Instances == {1, 2}

\* the pages the requests of the variant are answered with, by position in
\* urls; both instances request the same urls
Batches(k) == [1..BatchLen -> CipherPages(k)]

\* an instance after __init__ (lines 37-51) with its batch ahead: charEqNum is
\* its instance attribute, bound by an assignment to self.charEqNum
NewProvider(batch) ==
    [batch |-> batch, pending |-> DOMAIN batch, _proxies |-> {},
     charEqNum |-> [bound |-> FALSE, dict |-> EmptyDict]]

\* what self.charEqNum evaluates to on instance i: the instance attribute if
\* one is bound, else the class attribute (lines 348, 370, 416)
charEqNumOf(i) ==
    IF provider[i].charEqNum.bound THEN provider[i].charEqNum.dict
    ELSE IF kind = "Spys_ru" THEN Spys_ru_charEqNum
    ELSE EmptyDict

InitCipher ==
    /\ kind \in CipherKinds
    /\ proto = HTTP
    /\ max_conn = MaxConn
    /\ _max_tries = MaxTries
    /\ _sem_provider = max_conn
    /\ _session = "none"
    /\ run = "new"
    /\ tasks = [t \in TaskIds |-> IdleTask]
    /\ _proxies = {}
    /\ ev = NoEvent
    /\ pipe = NoLoop
    /\ earlier = NoCall
    /\ Spys_ru_charEqNum = EmptyDict
    /\ \E b \in Batches(kind) : provider = [i \in Instances |-> NewProvider(b)]
    /\ call = NoFind

\* find_proxies of the cipher variant k on instance i
cipher_find_proxies(k, i, page) ==
    CASE k = "Spys_ru" -> Spys_ru_find_proxies(charEqNumOf(i), page)
      [] k = "Xseo_in" -> Xseo_in_find_proxies(page)
      [] k = "Nntime_com" -> Nntime_com_find_proxies(page)

\* get returns the page of request n to its _find_on_page on instance i, which
\* runs to its end (lines 109-127): find_proxies inside the try, then the merge
PageArrives(i, n) ==
    /\ n \in provider[i].pending
    /\ LET page == provider[i].batch[n]
           f == cipher_find_proxies(kind, i, page)
           received == IF f.exc # "" THEN << >> ELSE f.items
           m == proxies_setter(provider[i]._proxies, received, proto)
       IN  /\ Spys_ru_charEqNum' =
                 (IF kind = "Spys_ru" /\ ~provider[i].charEqNum.bound
                  THEN f.charEqNum ELSE Spys_ru_charEqNum)
           /\ provider' = [provider EXCEPT
                 ![i].pending = @ \ {n},
                 ![i]._proxies = (IF received = << >> THEN @ ELSE m.proxies),
                 ![i].charEqNum = (IF kind = "Spys_ru" THEN @
                                   ELSE [bound |-> TRUE, dict |-> f.charEqNum])]
           /\ call' = [i |-> i, page |-> page, exc |-> f.exc, items |-> f.items]
    /\ UNCHANGED pipeline

NextCipher == \E i \in Instances : \E n \in 1..BatchLen : PageArrives(i, n)

SpecCipher == InitCipher /\ [][NextCipher]_vars

\* the variants whose _pipe reads a last page number off an index page
\* (Proxylist_me line 268, Gatherproxy_com line 319), each run on its own
Paged == {"Proxylist_me", "Gatherproxy_com"}

InitPaged ==
    /\ kind \in Paged
    /\ proto \in ProtosOf(kind)
    /\ max_conn \in 1..MaxConn
    /\ _max_tries \in 1..MaxTries
    /\ _sem_provider = max_conn
    /\ _session = "none"
    /\ run = "new"
    /\ tasks = [t \in TaskIds |-> IdleTask]
    /\ _proxies = {}
    /\ ev = NoEvent
    /\ pipe = NoLoop
    /\ earlier = NoCall
    /\ NoCipher

SpecPaged == InitPaged /\ [][Next]_vars


\* ---- what the claims speak of ----
\* the requests holding a permit of the semaphore
InFlight == {t \in TaskIds : tasks[t].pc = "request"}

\* the exceptions a task can die of inside get (they leave _get)
FetchExceptions == TransportErrors \cup {"RuntimeError"}

\* get has returned a text to the coroutine of slot t
GetReturned(t) ==
    /\ tasks[t].pc \in {"done", "raised"}
    /\ tasks[t].exc \notin FetchExceptions

RECURSIVE LeadingEmpty(_)
LeadingEmpty(log) ==
    IF log = << >> \/ Head(log) # "" THEN 0 ELSE 1 + LeadingEmpty(Tail(log))

\* every attempt of slot t came back empty and the attempts are used up
EmptyFetch(t) ==
    /\ Len(tasks[t].log) = _max_tries
    /\ \A i \in 1..Len(tasks[t].log) : tasks[t].log[i] = ""

\* the (host, port) pairs with a port among the items of a page
Pairs(page) ==
    {<<i[1], i[2]>> : i \in {j \in Range(PageItems(page)) : Len(j) = 2 /\ j[2] # ""}}

\* the page tasks of S that returned from a page whose extraction succeeded
Contributors(S) ==
    {t \in S \cap PageTasks : tasks[t].pc = "done" /\ ~DecodeFails(kind, tasks[t].page)}

MergedKeys(S) == UNION {Pairs(tasks[t].page) : t \in Contributors(S)}

Key(r) == <<r[1], r[2]>>

\* C1: at most max_conn requests hold a permit of the provider's semaphore at
\* any time, however many requests (and retries) are queued
C1_ConcurrencyBound == Cardinality(InFlight) <= max_conn

C1_Witness ==
    /\ Cardinality(InFlight) = max_conn
    /\ _session = "open"
    /\ \E t \in PageTasks : tasks[t].pc = "acquire"

\* C2: get stops at the first non-empty text and returns it after exactly k+1
\* calls of _get when the first k < max_tries calls came back empty; when every
\* call comes back empty it returns the empty text after exactly max_tries calls
C2_RetryBound ==
    \A t \in TaskIds :
        LET log == tasks[t].log
            k == LeadingEmpty(log)
        IN  /\ Len(log) <= _max_tries
            /\ GetReturned(t) =>
                 IF k < Len(log)
                 THEN Len(log) = k + 1 /\ tasks[t].page = log[k + 1]
                 ELSE Len(log) = _max_tries /\ tasks[t].page = ""
            /\ tasks[t].pc \in {"acquire", "request"} =>
                 k = Len(log) /\ Len(log) < _max_tries

C2_Witness ==
    /\ _max_tries = 2
    /\ GetReturned(0) /\ tasks[0].log = <<"A">>
    /\ \E t, u \in PageTasks :
          /\ GetReturned(t) /\ tasks[t].log = <<"", "B">> /\ tasks[t].page = "B"
          /\ GetReturned(u) /\ tasks[u].log = <<"", "">> /\ tasks[u].page = ""

\* C3: the result set holds one record per (host, port) key, namely one for
\* each pair of the merged pages, also when pages overlap or repeat
C3_OneRecordPerKey ==
    /\ \A r1, r2 \in _proxies : Key(r1) = Key(r2) => r1 = r2
    /\ {Key(r) : r \in _proxies} = MergedKeys(PageTasks)

C3_Witness ==
    /\ \E t, u \in PageTasks :
          /\ t # u
          /\ tasks[t].pc = "done" /\ tasks[t].page = "A"
          /\ tasks[u].pc = "done" /\ tasks[u].page \in {"A", "B"}
    /\ Cardinality(_proxies) >= 2

\* C4: every record of the result set carries the provider's declared proto
C4_DeclaredProto == \A r \in _proxies : r[3] = proto

C4_Witness ==
    /\ Cardinality(_proxies) = 3
    /\ \E t \in PageTasks : tasks[t].pc = "done" /\ tasks[t].page = "B"

\* a page task failed the way C5 lists: empty fetch, extraction that raised,
\* or merge that raised
Failed(t) ==
    /\ tasks[t].pc \in {"done", "raised"}
    /\ \/ EmptyFetch(t)
       \/ (tasks[t].page # "" /\ DecodeFails(kind, tasks[t].page))
       \/ tasks[t].exc = "ValueError"

\* C5: when the run hands back control, a failed page task has kept no
\* sibling from completing: each sibling has returned with its pairs in the
\* result set, or has failed by itself (stated for runs in which no
\* exception left _get while the session was open)
C5_SiblingsComplete ==
    (run \in Ended /\ \A u \in TaskIds : tasks[u].exc \notin TransportErrors) =>
        \A t, s \in PageTasks :
            (t # s /\ Failed(t) /\ tasks[s].pc # "idle") =>
                \/ tasks[s].pc = "done" /\
                     \A p \in Pairs(tasks[s].page) :
                        DecodeFails(kind, tasks[s].page) \/ <<p[1], p[2], proto>> \in _proxies
                \/ tasks[s].pc = "raised" /\ tasks[s].exc = "ValueError"

\* C6: the run has not ended while a page task of its batch is still waiting
\* for a permit or for a response
C6_WaitsForBatch ==
    run \in Ended => \A t \in PageTasks : tasks[t].pc \notin {"acquire", "request"}

\* C7: a provider run never raises, whatever the page contents and whatever
\* the fetch outcomes among those _get answers with a text
C7_NeverRaises ==
    (\A u \in TaskIds : tasks[u].exc \notin FetchExceptions) => run # "raised"

\* C8: _get returns the empty text and raises nothing when the request ends in
\* a status other than 200, a connect/reset error, a server disconnect, a
\* timeout or a decoding failure; on a 200 response it returns the body
C8_FetcherAbsorbs ==
    ev.task # -1 =>
        LET T == tasks[ev.task] IN
        IF \/ ev.exc \in {"UnicodeDecodeError", "TimeoutError", "ClientOSError",
                          "ServerDisconnectedError"}
           \/ (ev.exc = "" /\ ev.status # 200)
        THEN /\ T.exc = ""
             /\ T.pc # "raised"
             /\ Len(T.log) > 0
             /\ Last(T.log) = ""
        ELSE (ev.exc = "" /\ ev.status = 200) =>
                (Len(T.log) > 0 /\ Last(T.log) = ev.body)

C8_Witness ==
    /\ ev.task \in PageTasks
    /\ ev.exc = "TimeoutError"
    /\ tasks[ev.task].pc = "acquire"
    /\ tasks[ev.task].log = <<"">>
    /\ \E s \in PageTasks : s # ev.task /\ tasks[s].pc = "request"

\* C9: a page on which find_proxies raises leaves its task returned normally,
\* contributes nothing to the result set, and is not what makes the run raise
C9_ExtractionCaught ==
    \A t \in PageTasks :
        (tasks[t].page # "" /\ DecodeFails(kind, tasks[t].page)) =>
            /\ tasks[t].pc = "done"
            /\ tasks[t].exc = ""
            /\ tasks[t].extracted
            /\ {Key(r) : r \in _proxies} = MergedKeys(PageTasks \ {t})
            /\ run = "raised" => \E u \in TaskIds \ {t} : tasks[u].pc = "raised"

C9_Witness ==
    \E t, u \in PageTasks :
        /\ tasks[t].page = "X" /\ kind \in Decoders /\ tasks[t].pc = "done"
        /\ tasks[u].pc = "done" /\ tasks[u].page = "A"
        /\ run = "returned"
        /\ _proxies # {}

\* C10: a page whose every fetch attempt came back empty leaves its task
\* returned without extraction and without a change of the result set, and a
\* run whose fetches all ended so returns normally
C10_EmptyPage ==
    /\ \A t \in TaskIds :
          EmptyFetch(t) =>
             /\ tasks[t].pc = "done"
             /\ tasks[t].exc = ""
             /\ tasks[t].page = ""
             /\ ~tasks[t].extracted
             /\ {Key(r) : r \in _proxies} = MergedKeys(PageTasks \ {t})
    /\ ( /\ run \in Ended
         /\ \E t \in TaskIds : EmptyFetch(t)
         /\ \A t \in PageTasks : tasks[t].pc # "idle" => EmptyFetch(t) )
       => (run = "returned" /\ _proxies = {})

C10_Witness ==
    /\ _max_tries = 2
    /\ run = "returned"
    /\ \E t, u \in PageTasks :
          /\ EmptyFetch(t) /\ tasks[t].pc = "done"
          /\ tasks[u].pc = "done" /\ tasks[u].page = "A"


\* C11: every _get gives back the permit it took, however the request ended:
\* the free permits and the permits held by requests in flight always add up
\* to max_conn, so with no request in flight max_conn permits are free
C11_PermitsConserved ==
    /\ _sem_provider + Cardinality(InFlight) = max_conn
    /\ InFlight = {} => _sem_provider = max_conn

C11_Witness ==
    /\ InFlight = {}
    /\ _sem_provider = max_conn
    /\ \E t, u \in PageTasks :
          /\ tasks[t].exc = "ClientPayloadError"
          /\ tasks[u].exc = "RuntimeError"
    /\ tasks[0].log = <<"", "A">>


\* C13: Proxylist_me, Gatherproxy_com: an index page that is not empty but
\* holds no page-number token is tolerated, discovery does not fail on it
C13_NoTokenTolerated ==
    (/\ kind \in Paged
     /\ tasks[0].page # ""
     /\ PageTokens(tasks[0].page) = << >>)
        => (tasks[0].pc # "raised" /\ run # "raised")

\* the tiers whose page-1 fetch returned a text with a last page number
SucceededTiers ==
    {i \in 1..Len(pipe.pages) :
        pipe.pages[i] # "" /\ PageTokens(pipe.pages[i]) # << >>}

\* C14: Gatherproxy_com: once the loop over the tiers is left, the batch has
\* a request {Type: t, PageIdx: p} for every tier t whose page-1 fetch
\* succeeded and every p in 1..L_t
C14_EveryTierListed ==
    (/\ kind = "Gatherproxy_com"
     /\ Len(pipe.pages) = Len(Tiers)
     /\ tasks[0].pc = "done")
        => \A i \in SucceededTiers :
              \A p \in 1..Max(PageTokens(pipe.pages[i])) :
                 /\ TierReq(Tiers[i], p) \in Range(pipe.urls)
                 /\ \E u \in PageTasks : tasks[u].req = TierReq(Tiers[i], p)


\* a call of get_proxies has just begun: nothing is fetched yet
JustCalled ==
    /\ run \in {"index", "page"}
    /\ \A t \in TaskIds : tasks[t].pc \in {"idle", "acquire"} /\ tasks[t].log = << >>

\* C15: every call of get_proxies starts from an empty set, and the set an
\* earlier call returned keeps the content it was returned with
C15_FreshAndFrozen ==
    /\ JustCalled => _proxies = {}
    /\ earlier.calls > 0 => _proxies = earlier.returned


\* ---- the cipher variants: what the claims speak of ----
\* every letter of every port expression of the page is assigned on the page
LettersDefined(page) ==
    \A i \in 1..Len(page.ports) :
       \A ch \in Range(page.ports[i][2]) \ {"+"} :
          \E j \in 1..Len(page.defs) : page.defs[j][1] = ch

\* the digits the assignments defs map the letters of chars to, in order
RECURSIVE MappedDigits(_, _)
MappedDigits(defs, chars) ==
    IF chars = << >> THEN ""
    ELSE IF Head(chars) = "+" THEN MappedDigits(defs, Tail(chars))
    ELSE defs[CHOOSE j \in 1..Len(defs) : defs[j][1] = Head(chars)][2]
            \o MappedDigits(defs, Tail(chars))

\* C16: Xseo_in, Nntime_com: on a page that assigns a digit to every letter
\* of its port expressions, each expression is replaced by the digits of its
\* letters in order, '+' skipped; a=7;b=2;c=9; and (""+a+b+c) give port 729
C16_LettersDecoded ==
    (/\ kind \in {"Xseo_in", "Nntime_com"}
     /\ call.i # 0
     /\ LettersDefined(call.page))
        => /\ call.exc = ""
           /\ call.items =
                 [i \in 1..Len(call.page.ports) |->
                     <<call.page.ports[i][1],
                       MappedDigits(call.page.defs, call.page.ports[i][2])>>]
           /\ call.page = Letters1 => call.items = << <<"10.0.0.1", "729">> >>

C16_Witness ==
    /\ kind = "Nntime_com"
    /\ call.page = Letters2
    /\ call.items = << <<"10.0.0.2", "80">>, <<"10.0.0.1", "088">> >>
    /\ Letters3 \in {provider[call.i].batch[n] :
                        n \in DOMAIN provider[call.i].batch \ provider[call.i].pending}

\* bit i of n, and the number whose bits are those in which a and b differ
Bit(n, i) == (n \div (2 ^ i)) % 2

XorValue(a, b) ==
    LET d(i) == IF Bit(a, i) # Bit(b, i) THEN 2 ^ i ELSE 0
    IN  d(0) + d(1) + d(2) + d(3)

\* every symbol of every chain of the page is in the table
ChainsResolved(table, page) ==
    \A i \in 1..Len(page.ports) :
       \A g \in Range(page.ports[i][2]) : Range(g) \subseteq DOMAIN table

\* the decimal values of the groups of a chain, concatenated in group order
RECURSIVE ChainPort(_, _)
ChainPort(table, chain) ==
    IF chain = << >> THEN ""
    ELSE str(XorValue(table[chain[1][1]], table[chain[1][2]]))
            \o ChainPort(table, Tail(chain))

\* C17: Spys_ru: a chain of groups whose symbols are all in the table is
\* replaced by the decimal values of value(x) XOR value(y) of its groups,
\* concatenated in group order; abcd=5, efgh=3 and (abcd^efgh) give 6
C17_XorDecoded ==
    (/\ kind = "Spys_ru"
     /\ call.i # 0
     /\ ChainsResolved(Spys_ru_charEqNum, call.page))
        => /\ call.exc = ""
           /\ call.items =
                 [i \in 1..Len(call.page.ports) |->
                     <<call.page.ports[i][1],
                       ChainPort(Spys_ru_charEqNum, call.page.ports[i][2])>>]
           /\ call.page = Xor1 => call.items = << <<"10.0.0.1", "6">> >>

C17_Witness ==
    /\ kind = "Spys_ru"
    /\ call.page = Xor3
    /\ call.items = << <<"10.0.0.1", "104">>, <<"10.0.0.2", "6">> >>


\* instance i has not been handed a page yet
Untouched(i) == provider[i].pending = DOMAIN provider[i].batch

\* find_proxies of variant k on a page, on an instance that has decoded nothing
FreshDecode(k, page) ==
    IF k = "Spys_ru" THEN Spys_ru_find_proxies(EmptyDict, page)
    ELSE IF k = "Xseo_in" THEN Xseo_in_find_proxies(page)
    ELSE Nntime_com_find_proxies(page)

\* C18: find_proxies of a cipher variant returns for a page the pairs (or the
\* failure) the page text alone determines, whatever pages the provider
\* decoded before it
C18_PureDecoding ==
    (/\ kind \in CipherKinds
     /\ call.i # 0
     /\ \A j \in Instances \ {call.i} : Untouched(j))
        => /\ call.exc = FreshDecode(kind, call.page).exc
           /\ call.items = FreshDecode(kind, call.page).items

\* C19: operations on one instance leave the other instance's set of proxies
\* and decoding table as they were: an instance that was handed no page has
\* an empty set and sees an empty table
C19_NoSharedState ==
    kind \in CipherKinds =>
        \A i \in Instances :
           Untouched(i) => /\ provider[i]._proxies = {}
                           /\ charEqNumOf(i) = EmptyDict

\* the set of a run whose pages complete in the order of urls, on an instance
\* that has decoded nothing
RECURSIVE InOrder(_, _, _, _)
InOrder(k, table, batch, set) ==
    IF batch = << >> THEN set
    ELSE LET f == IF k = "Spys_ru" THEN Spys_ru_find_proxies(table, Head(batch))
                  ELSE FreshDecode(k, Head(batch))
             received == IF f.exc # "" THEN << >> ELSE f.items
         IN  InOrder(k, IF k = "Spys_ru" THEN f.charEqNum ELSE table, Tail(batch),
                     IF received = << >> THEN set
                     ELSE proxies_setter(set, received, HTTP).proxies)

\* C12: for a fixed batch and fixed page texts the set a run ends with is the
\* same for every order in which the page tasks complete and merge, for the
\* cipher variants too: it is the set of the run that completes in urls order
C12_OrderIndependent ==
    kind \in CipherKinds =>
        \A i \in Instances :
           (/\ provider[i].pending = {}
            /\ \A j \in Instances \ {i} : Untouched(j))
               => provider[i]._proxies = InOrder(kind, EmptyDict, provider[i].batch, {})


\* C20: with every request answered and fair scheduling, a run eventually
\* completes: get_proxies eventually returns, unless a request was answered
\* with a failure that _get passes on
C20_EventuallyReturns ==
    <>(\/ run = "returned"
       \/ \E u \in TaskIds : tasks[u].exc = "ClientPayloadError")

\* every run comes to an end, by a return or by an exception
EventuallyEnded == <>(run \in Ended)

\* a task waiting for a permit gets one, or its run is over
NoStarvation ==
    \A t \in TaskIds :
       (tasks[t].pc = "acquire") ~> (tasks[t].pc # "acquire" \/ run \in Ended)


\* the requests of the page tasks that were launched
Launched == {tasks[t].req : t \in {u \in PageTasks : tasks[u].pc # "idle"}}

\* C21: Proxylist_me: with M >= 1 the largest page number on the index page,
\* the follow-up requests are the URLs '?page=n' for n in 1..M, one each:
\* page M is requested and page 0 is not
C21_PagesOneToMax ==
    (/\ kind = "Proxylist_me"
     /\ tasks[0].pc = "done"
     /\ PageTokens(tasks[0].page) # << >>
     /\ Max(PageTokens(tasks[0].page)) >= 1)
        => LET M == Max(PageTokens(tasks[0].page)) IN
           /\ Launched = {Url(<<"https://proxylist.me/?page=", n>>) : n \in 1..M}
           /\ \A n \in 1..M :
                 Cardinality({t \in PageTasks :
                    tasks[t].req = Url(<<"https://proxylist.me/?page=", n>>)}) = 1


\* the variants whose _pipe hands the list it built to _find_on_pages
Batching == {"Proxy_list_org", "Proxylist_me", "Spys_ru"}

\* _pipe has handed a list to _find_on_pages
Batched ==
    /\ kind \in Batching
    /\ tasks[0].pc = "done"
    /\ tasks[0].page # ""

\* C22: _find_on_pages launches one page task per distinct request: one per
\* distinct URL of a list of strings, one per element of a list of request
\* descriptors, and none for an empty list, for which no request is issued
C22_OneTaskPerRequest ==
    Batched =>
        LET urls == _pipe(kind, tasks[0].page, proto).urls
            live == {t \in PageTasks : tasks[t].pc # "idle"}
        IN  IF urls = << >>
            THEN live = {} /\ run = "returned"
            ELSE IF urls[1].dict
            THEN /\ live = 1..Len(urls)
                 /\ \A i \in 1..Len(urls) : tasks[i].req = urls[i]
            ELSE /\ \A t \in live : tasks[t].req \in Range(urls)
                 /\ \A u \in Range(urls) :
                       Cardinality({t \in live : tasks[t].req = u}) = 1

C22_Witness ==
    /\ Batched
    /\ kind = "Proxy_list_org"
    /\ LET urls == _pipe(kind, tasks[0].page, proto).urls IN
       /\ Cardinality(Range(urls)) < Len(urls)
       /\ \A t \in PageTasks :
             tasks[t].pc = "done" <=> t \in 1..Cardinality(Range(urls))
       /\ \E t \in PageTasks : Len(tasks[t].log) > 1


\* the page tasks whose merge is done by the step: the response arrived,
\* extraction ran and _find_on_page returned
Merging ==
    {t \in TaskIds : /\ tasks[t].pc = "request"
                     /\ tasks'[t].pc = "done"
                     /\ tasks'[t].extracted}

\* what a step does to the set of proxies: no record is removed, no record
\* with an empty port is in it, and what is added is exactly the pairs with a
\* non-empty port of the page whose merge the step does
MergeStep ==
    /\ _proxies \subseteq _proxies'
    /\ \A r \in _proxies' : r[2] # ""
    /\ _proxies' \ _proxies \subseteq
          UNION {{<<p[1], p[2], proto>> : p \in Pairs(tasks'[t].page)} : t \in Merging}
    /\ \A t \in Merging :
          \A i \in Range(PageItems(tasks'[t].page)) :
             (<<i[1], i[2], proto>> \in _proxies') <=> (i[2] # "")

\* C23: no record of the set of proxies ever has an empty port: a merge adds
\* exactly the extracted pairs whose port is not empty, drops the others and
\* removes no record that is there
C23_NoEmptyPort == [][MergeStep]_vars

C23_Witness ==
    /\ kind = "Proxy_list_org"
    /\ ev.task \in PageTasks
    /\ ev.body = "B"
    /\ tasks[ev.task].pc = "done"
    /\ \E u \in PageTasks \ {ev.task} : tasks[u].pc = "done" /\ tasks[u].page = "A"
    /\ _proxies = {<<"10.0.0.1", "80", proto>>, <<"10.0.0.2", "80", proto>>,
                   <<"10.0.0.2", "81", proto>>}

====
